---- MODULE Spec2Model ----
(***************************************************************************)
(* Model of the backtest simulators and of the evaluator of the            *)
(* repository.                                                             *)
(*                                                                         *)
(*  - src/fusion_model_backtest.py: the continuous-position backtest, a    *)
(*    pipeline of pandas column statements over the table df_recent.       *)
(*    Its floats are decimals with four fractional digits (SCALE), every   *)
(*    product and quotient rounded to the nearest unit.                    *)
(*  - src/.ipynb_checkpoints/fusion_model_test-checkpoint.py:              *)
(*    BacktestEngine.backtest, the direction-only loop, alone and as two   *)
(*    concurrent calls; the functions of MetricsCalculator; and            *)
(*    ModelEvaluator.evaluate_model.  Their floats are exact rationals     *)
(*    <<n, d>> with d > 0, with d = 0 for the IEEE values inf (<<1,0>>),   *)
(*    -inf (<<-1,0>>) and NaN (<<0,0>>).                                   *)
(*                                                                         *)
(* NaN cells in the input tables are outside the model.                    *)
(***************************************************************************)
EXTENDS Integers, Sequences, FiniteSets, TLC

VARIABLES
    \* ---- fusion_model_backtest.py: backtest(...)
    pc,                    \* statement the script is about to run
    transaction_cost,      \* parameter transaction_cost (decimal)
    max_position,          \* parameter max_position (decimal)
    df_Predicted,          \* df_recent['Predicted']
    df_Actual,             \* df_recent['Actual'], a percentage
    df_position,           \* df_recent['position']
    df_position_change,    \* df_recent['position_change']
    df_transaction_cost,   \* df_recent['transaction_cost']
    df_daily_return,       \* df_recent['daily_return']
    df_cumulative_return,  \* df_recent['cumulative_return'], a percentage
    trade_counts,          \* trade_counts
    total_cost,            \* total_cost, a percentage
    \* ---- fusion_model_test-checkpoint.py: BacktestEngine.backtest(...)
    eng_pc,                \* where the method is: loop, return, done or the error raised
    initial_capital,       \* self.initial_capital
    eng_transaction_cost,  \* parameter transaction_cost (rational)
    predictions,           \* parameter predictions: rows [Predicted, Actual]
    loop_i,                \* loop index i, 0-based as in the code
    portfolio,             \* portfolio (rational)
    position,              \* position: 0 flat, 1 holding
    trades,                \* trades
    daily_returns,         \* daily_returns
    result,                \* the returned dictionary, NoResult until returned
    \* ---- a call of one of the metric functions
    met_fn,                \* the function called, "none" before the call
    met_args,              \* its arguments
    met_out,               \* the bundle it returns, or the exception it raises
    \* ---- fusion_model_test-checkpoint.py: ModelEvaluator.evaluate_model(...)
    ev_pc,                 \* where the method is: loop, summary, latex or the error raised
    ev_data,               \* per symbol, what the body of _get_predictions does
    ev_k,                  \* position of the loop in symbols, 1-based
    ev_results,            \* results['Unknown']
    ev_files,              \* the files under save_dir, <<symbol, name>>
    ev_returns,            \* returns of the last _calculate_all_metrics call
    \* ---- two concurrent calls of BacktestEngine.backtest
    thr_capital,           \* self.initial_capital of the shared engine
    thr_input,             \* per call, its arguments
    thr_run                \* per call, its local variables

script_vars == <<pc, transaction_cost, max_position, df_Predicted, df_Actual,
                 df_position, df_position_change, df_transaction_cost,
                 df_daily_return, df_cumulative_return, trade_counts, total_cost>>

engine_vars == <<eng_pc, initial_capital, eng_transaction_cost, predictions, loop_i,
                 portfolio, position, trades, daily_returns, result>>

metrics_vars == <<met_fn, met_args, met_out>>

evaluator_vars == <<ev_pc, ev_data, ev_k, ev_results, ev_files, ev_returns>>

threads_vars == <<thr_capital, thr_input, thr_run>>

vars == <<script_vars, engine_vars, metrics_vars, evaluator_vars, threads_vars>>

-----------------------------------------------------------------------------
(* Bounds of the model *)

\* longest input table
MaxRows == 3

-----------------------------------------------------------------------------
(* Decimal arithmetic of the script *)

\* one unit is 0.0001
SCALE == 100 * 100

Abs(x) == IF x < 0 THEN -x ELSE x

\* n / d rounded to the nearest integer, d > 0
RoundDiv(n, d) == (2 * n + d) \div (2 * d)

FMul(a, b) == RoundDiv(a * b, SCALE)

FDiv(a, b) == RoundDiv(a * SCALE, b)

\* the decimal x / 1000
Milli(x) == (x * SCALE) \div 1000

RECURSIVE SumSeq(_)
SumSeq(s) == IF s = <<>> THEN 0 ELSE s[1] + SumSeq(Tail(s))

-----------------------------------------------------------------------------
(* Inputs of the script *)

\* a predicted return large enough for the sigmoid to saturate
BigReturn == 40 * SCALE

\* Predicted cells: -40, -0.1, 0, 0.1, 40
PredictedValues == {-BigReturn, -Milli(100), 0, Milli(100), BigReturn}

\* Actual cells, in percent: -10, 10
ActualValues == {-10 * SCALE, 10 * SCALE}

\* transaction_cost: 0, 0.001 and the default 0.002
CostRates == {0, Milli(1), Milli(2)}

\* max_position: the default 0.5, and 1
MaxPositions == {SCALE \div 2, SCALE}

-----------------------------------------------------------------------------
(* calculate_position_size *)

\* np.exp at the arguments the inputs produce; a value above the decimal
\* range is held as ExpOverRange, whose reciprocal rounds to 0, as
\* 1 / (1 + np.exp(40)) added to -0.5 rounds to -0.5 in float64
ExpOverRange == 100000 * SCALE

np_exp(x) ==
    CASE x = -BigReturn -> 0
      [] x = -Milli(100) -> 9048
      [] x = 0 -> SCALE
      [] x = Milli(100) -> 11052
      [] x = BigReturn -> ExpOverRange

np_clip(x, lo, hi) == IF x < lo THEN lo ELSE IF x > hi THEN hi ELSE x

\* 1 / (1 + np.exp(-predicted_return))
Sigmoid(predicted_return) == FDiv(SCALE, SCALE + np_exp(-predicted_return))

\* a sizing without the parentheses around the sigmoid term and without the clip
calculate_position_size_unclipped(predicted_return, max_pos) ==
    FMul(2 * max_pos, Sigmoid(predicted_return)) - SCALE \div 2

calculate_position_size(predicted_return, max_pos) ==
    LET pos == FMul(2 * max_pos, Sigmoid(predicted_return) - SCALE \div 2)
    IN  np_clip(pos, -max_pos, max_pos)

-----------------------------------------------------------------------------
(* The column statements of backtest *)

\* df_recent['Predicted'].apply(calculate_position_size, max_position=...)
PositionColumn(predicted, max_pos) ==
    [i \in DOMAIN predicted |-> calculate_position_size(predicted[i], max_pos)]

\* a position change whose first row is 0 instead of the first position
PositionChangeFirstZero(pos) ==
    [i \in DOMAIN pos |->
        IF i = 1 THEN 0 ELSE pos[i] - pos[i - 1]]

\* position - position.shift(1), the first row then set to the first position
PositionChange(pos) ==
    [i \in DOMAIN pos |->
        IF i = 1 THEN pos[1] ELSE pos[i] - pos[i - 1]]

\* a cost on the size of the position held instead of on its change
TransactionCostOnPosition(pos, position_change, rate) ==
    [i \in DOMAIN position_change |-> FMul(Abs(pos[i]), rate)]

\* a flat fee of 0.002 per row that trades
TransactionCostFlatFee(pos, position_change, rate) ==
    [i \in DOMAIN position_change |->
        IF position_change[i] # 0 THEN Milli(2) ELSE 0]

\* abs(position_change) * transaction_cost
TransactionCost(pos, position_change, rate) ==
    [i \in DOMAIN position_change |-> FMul(Abs(position_change[i]), rate)]

\* position * Actual / 100.0 - transaction_cost
DailyReturn(pos, actual, cost) ==
    [i \in DOMAIN pos |->
        RoundDiv(FMul(pos[i], actual[i]), 100) - cost[i]]

\* (1 + s).cumprod()
RECURSIVE CumProd(_, _)
CumProd(s, i) ==
    IF i = 1 THEN SCALE + s[1]
    ELSE FMul(CumProd(s, i - 1), SCALE + s[i])

\* a cumulative return that starts from the reference point 0
CumulativeReturnFromZero(daily_return) ==
    [i \in DOMAIN daily_return |->
        IF i = 1 THEN 0 ELSE (CumProd(Tail(daily_return), i - 1) - SCALE) * 100]

\* ((1 + daily_return).cumprod() - 1) * 100
CumulativeReturn(daily_return) ==
    [i \in DOMAIN daily_return |-> (CumProd(daily_return, i) - SCALE) * 100]

\* (position_change != 0).sum()
TradeCounts(position_change) ==
    Cardinality({i \in DOMAIN position_change : position_change[i] # 0})

\* transaction_cost.sum() * 100
TotalCost(cost) == SumSeq(cost) * 100

-----------------------------------------------------------------------------
(* backtest of fusion_model_backtest.py as a state machine *)

ScriptInit ==
    /\ pc = "position"
    /\ transaction_cost \in CostRates
    /\ max_position \in MaxPositions
    /\ \E n \in 0..MaxRows :
          /\ df_Predicted \in [1..n -> PredictedValues]
          /\ df_Actual \in [1..n -> ActualValues]
    /\ df_position = <<>>
    /\ df_position_change = <<>>
    /\ df_transaction_cost = <<>>
    /\ df_daily_return = <<>>
    /\ df_cumulative_return = <<>>
    /\ trade_counts = 0
    /\ total_cost = 0

\* line 42
ComputePosition ==
    /\ pc = "position"
    /\ df_position' = PositionColumn(df_Predicted, max_position)
    /\ pc' = "position_change"
    /\ UNCHANGED <<engine_vars, metrics_vars, evaluator_vars, threads_vars,
                   transaction_cost, max_position, df_Predicted, df_Actual,
                   df_position_change, df_transaction_cost, df_daily_return,
                   df_cumulative_return, trade_counts, total_cost>>

\* lines 46-47; df_recent.index[0] of an empty table raises IndexError
ComputePositionChange ==
    /\ pc = "position_change"
    /\ IF df_position = <<>>
       THEN /\ pc' = "IndexError"
            /\ UNCHANGED df_position_change
       ELSE /\ df_position_change' = PositionChange(df_position)
            /\ pc' = "transaction_cost"
    /\ UNCHANGED <<engine_vars, metrics_vars, evaluator_vars, threads_vars,
                   transaction_cost, max_position, df_Predicted, df_Actual,
                   df_position, df_transaction_cost, df_daily_return,
                   df_cumulative_return, trade_counts, total_cost>>

\* line 48
ComputeTransactionCost ==
    /\ pc = "transaction_cost"
    /\ df_transaction_cost' =
          TransactionCost(df_position, df_position_change, transaction_cost)
    /\ pc' = "daily_return"
    /\ UNCHANGED <<engine_vars, metrics_vars, evaluator_vars, threads_vars,
                   transaction_cost, max_position, df_Predicted, df_Actual,
                   df_position, df_position_change, df_daily_return,
                   df_cumulative_return, trade_counts, total_cost>>

\* line 55
ComputeDailyReturn ==
    /\ pc = "daily_return"
    /\ df_daily_return' = DailyReturn(df_position, df_Actual, df_transaction_cost)
    /\ pc' = "cumulative_return"
    /\ UNCHANGED <<engine_vars, metrics_vars, evaluator_vars, threads_vars,
                   transaction_cost, max_position, df_Predicted, df_Actual,
                   df_position, df_position_change, df_transaction_cost,
                   df_cumulative_return, trade_counts, total_cost>>

\* line 56
ComputeCumulativeReturn ==
    /\ pc = "cumulative_return"
    /\ df_cumulative_return' = CumulativeReturn(df_daily_return)
    /\ pc' = "statistics"
    /\ UNCHANGED <<engine_vars, metrics_vars, evaluator_vars, threads_vars,
                   transaction_cost, max_position, df_Predicted, df_Actual,
                   df_position, df_position_change, df_transaction_cost,
                   df_daily_return, trade_counts, total_cost>>

\* lines 70 and 72
ComputeStatistics ==
    /\ pc = "statistics"
    /\ trade_counts' = TradeCounts(df_position_change)
    /\ total_cost' = TotalCost(df_transaction_cost)
    /\ pc' = "done"
    /\ UNCHANGED <<engine_vars, metrics_vars, evaluator_vars, threads_vars,
                   transaction_cost, max_position, df_Predicted, df_Actual,
                   df_position, df_position_change, df_transaction_cost,
                   df_daily_return, df_cumulative_return>>

ScriptNext ==
    \/ ComputePosition
    \/ ComputePositionChange
    \/ ComputeTransactionCost
    \/ ComputeDailyReturn
    \/ ComputeCumulativeReturn
    \/ ComputeStatistics

-----------------------------------------------------------------------------
(* Rational arithmetic of the engine, with the IEEE values inf, -inf, NaN *)

RECURSIVE GCD(_, _)
GCD(a, b) == IF b = 0 THEN a ELSE GCD(b, a % b)

SignOf(n) == IF n > 0 THEN 1 ELSE IF n < 0 THEN -1 ELSE 0

NaN == <<0, 0>>
PosInf == <<1, 0>>
NegInf == <<-1, 0>>

\* the fraction n / d in lowest terms, d > 0
Frac(n, d) == LET g == GCD(Abs(n), d) IN <<n \div g, d \div g>>

\* the integer n as a rational
Int2R(n) == <<n, 1>>

IsNaN(a) == a = NaN
IsFinite(a) == a[2] > 0
IsInf(a) == a[2] = 0 /\ a[1] # 0

RNeg(a) == <<-a[1], a[2]>>

RAdd(a, b) ==
    IF IsFinite(a) /\ IsFinite(b)
    THEN LET l == (a[2] \div GCD(a[2], b[2])) * b[2]
         IN  Frac(a[1] * (l \div a[2]) + b[1] * (l \div b[2]), l)
    ELSE IF IsNaN(a) \/ IsNaN(b) THEN NaN
    ELSE IF IsInf(a) /\ IsInf(b) THEN (IF a = b THEN a ELSE NaN)
    ELSE IF IsInf(a) THEN a ELSE b

RSub(a, b) == RAdd(a, RNeg(b))

RMul(a, b) ==
    IF IsFinite(a) /\ IsFinite(b)
    THEN LET x == Frac(a[1], b[2])
             y == Frac(b[1], a[2])
         IN  <<x[1] * y[1], x[2] * y[2]>>
    ELSE IF IsNaN(a) \/ IsNaN(b) \/ a[1] = 0 \/ b[1] = 0 THEN NaN
    ELSE <<SignOf(a[1]) * SignOf(b[1]), 0>>

\* a / b as numpy divides floats: x / 0 is inf, -inf or NaN, never an exception
RDiv(a, b) ==
    IF IsNaN(a) \/ IsNaN(b) THEN NaN
    ELSE IF IsInf(b) THEN (IF IsInf(a) THEN NaN ELSE <<0, 1>>)
    ELSE IF b[1] = 0
         THEN (IF a[1] = 0 THEN NaN ELSE <<SignOf(a[1]), 0>>)
    ELSE RMul(a, IF b[1] > 0 THEN <<b[2], b[1]>> ELSE <<-b[2], -b[1]>>)

\* a < b; False when either is NaN
RLt(a, b) ==
    IF IsNaN(a) \/ IsNaN(b) THEN FALSE
    ELSE IF IsInf(a) \/ IsInf(b)
         THEN (IF IsInf(a) /\ IsInf(b) THEN a[1] < b[1]
               ELSE IF IsInf(a) THEN a[1] < 0 ELSE b[1] > 0)
    ELSE LET l == (a[2] \div GCD(a[2], b[2])) * b[2]
         IN  a[1] * (l \div a[2]) < b[1] * (l \div b[2])

\* np.maximum(a, b): NaN when either is NaN
RMax(a, b) == IF IsNaN(a) \/ IsNaN(b) THEN NaN ELSE IF RLt(a, b) THEN b ELSE a

RECURSIVE RSum(_)
RSum(s) == IF s = <<>> THEN <<0, 1>> ELSE RAdd(s[1], RSum(Tail(s)))

\* np.mean: NaN for an empty array
RMean(s) == IF s = <<>> THEN NaN ELSE RDiv(RSum(s), Int2R(Len(s)))

-----------------------------------------------------------------------------
(* Inputs of the engine *)

\* Predicted cells
EnginePredicted == {0, 1, 2}

\* Actual cells: the repository's Actual column holds signed price changes
EngineActual == {-1, 0, 1, 2}

\* transaction_cost in [0, 1): 0, 1/100, 1/2
EngineCostRates == {<<0, 1>>, <<1, 100>>, <<1, 2>>}

\* initial_capital > 0
EngineCapitals == {1000}

PredictionRows == [Predicted : EnginePredicted, Actual : EngineActual]

NoResult == [error |-> "not returned"]

-----------------------------------------------------------------------------
(* BacktestEngine.backtest *)

\* predictions.iloc[k], k 0-based
Row(k) == predictions[k + 1]

\* line 225
Signal(predicted_now, predicted_before) ==
    IF predicted_now > predicted_before THEN 1 ELSE 0

\* a cost charged on every step that holds a position
AfterCostWhenHolding(pf, pos, signal, rate) ==
    IF signal # 0 THEN RSub(pf, RMul(pf, rate)) ELSE pf

\* lines 228-230: the portfolio after the cost of a change of position
AfterCost(pf, pos, signal, rate) ==
    IF pos # signal THEN RSub(pf, RMul(pf, rate)) ELSE pf

\* returns credited whatever the position
StepReturnsAlways(pos, price_change, actual_before) ==
    RDiv(Int2R(price_change), Int2R(actual_before))

\* lines 233-239: the value appended to daily_returns
StepReturns(pos, price_change, actual_before) ==
    IF pos # 0
    THEN RDiv(Int2R(price_change), Int2R(actual_before))
    ELSE <<0, 1>>

\* a return credited on the initial capital instead of on the portfolio
AfterReturnsOnCapital(pf, pos, returns) ==
    IF pos # 0 THEN RAdd(pf, RMul(Int2R(initial_capital), returns)) ELSE pf

\* lines 235-236
AfterReturns(pf, pos, returns) ==
    IF pos # 0 THEN RAdd(pf, RMul(pf, returns)) ELSE pf

\* a log that records only the steps on which a position is held
AppendTradeWhenHolding(log, date, signal, pf, returns) ==
    IF signal = 1
    THEN Append(log, [date |-> date, signal |-> signal,
                      portfolio |-> pf, returns |-> returns])
    ELSE log

\* lines 241-246
AppendTrade(log, date, signal, pf, returns) ==
    Append(log, [date |-> date, signal |-> signal,
                 portfolio |-> pf, returns |-> returns])

\* np.maximum.accumulate(portfolio_values)
RECURSIVE RunningMax(_, _)
RunningMax(values, k) ==
    IF k = 1 THEN values[1] ELSE RMax(RunningMax(values, k - 1), values[k])

RECURSIVE RMaxOf(_, _)
RMaxOf(values, k) ==
    IF k = 1 THEN values[1] ELSE RMax(RMaxOf(values, k - 1), values[k])

\* lines 261-266, for a non-empty array
calculate_max_drawdown(portfolio_values) ==
    LET drawdown == [k \in DOMAIN portfolio_values |->
                        RDiv(RSub(RunningMax(portfolio_values, k), portfolio_values[k]),
                             RunningMax(portfolio_values, k))]
    IN  RMaxOf(drawdown, Len(drawdown))

\* np.mean(daily_returns > 0)
WinRate(returns) ==
    RMean([k \in DOMAIN returns |->
              IF RLt(<<0, 1>>, returns[k]) THEN <<1, 1>> ELSE <<0, 1>>])

\* the statistics of lines 251-259 that need no square root
SummaryStatistics(pf, capital, log, returns) ==
    [error |-> "none",
     Final_Portfolio |-> pf,
     Total_Return |-> RDiv(RSub(pf, Int2R(capital)), Int2R(capital)),
     Annual_Return |-> RMul(RMean(returns), Int2R(252)),
     Max_Drawdown |-> IF log = <<>> THEN NaN
                      ELSE calculate_max_drawdown([k \in DOMAIN log |-> log[k].portfolio]),
     Win_Rate |-> WinRate(returns)]

\* a summary that reports NaN statistics for an empty log
BacktestSummaryOfAnyLog(pf, capital, log, returns) ==
    SummaryStatistics(pf, capital, log, returns)

\* lines 248-259: pd.DataFrame([]) has no column 'portfolio', so
\* trades_df['portfolio'] raises KeyError when the log is empty
BacktestSummary(pf, capital, log, returns) ==
    IF log = <<>>
    THEN [error |-> "KeyError"]
    ELSE SummaryStatistics(pf, capital, log, returns)

EngineInit ==
    /\ eng_pc = "loop"
    /\ initial_capital \in EngineCapitals
    /\ eng_transaction_cost \in EngineCostRates
    /\ \E n \in 0..MaxRows : predictions \in [1..n -> PredictionRows]
    /\ loop_i = 1
    /\ portfolio = Int2R(initial_capital)
    /\ position = 0
    /\ trades = <<>>
    /\ daily_returns = <<>>
    /\ result = NoResult

\* one iteration of the loop, lines 224-246
LoopStep ==
    /\ eng_pc = "loop"
    /\ loop_i < Len(predictions)
    /\ LET signal == Signal(Row(loop_i).Predicted, Row(loop_i - 1).Predicted)
           price_change == Row(loop_i).Actual - Row(loop_i - 1).Actual
           paid == AfterCost(portfolio, position, signal, eng_transaction_cost)
           returns == StepReturns(signal, price_change, Row(loop_i - 1).Actual)
           pf == AfterReturns(paid, signal, returns)
       IN  /\ position' = signal
           /\ portfolio' = pf
           /\ daily_returns' = Append(daily_returns, returns)
           /\ trades' = AppendTrade(trades, loop_i, signal, pf, returns)
    /\ loop_i' = loop_i + 1
    /\ UNCHANGED <<script_vars, metrics_vars, evaluator_vars, threads_vars,
                   eng_pc, initial_capital, eng_transaction_cost,
                   predictions, result>>

\* range(1, len(predictions)) is exhausted
LoopExit ==
    /\ eng_pc = "loop"
    /\ loop_i >= Len(predictions)
    /\ eng_pc' = "return"
    /\ UNCHANGED <<script_vars, metrics_vars, evaluator_vars, threads_vars,
                   initial_capital, eng_transaction_cost, predictions,
                   loop_i, portfolio, position, trades, daily_returns, result>>

\* lines 248-259
ReturnSummary ==
    /\ eng_pc = "return"
    /\ LET summary == BacktestSummary(portfolio, initial_capital, trades, daily_returns)
       IN  IF summary.error = "none"
           THEN /\ result' = summary
                /\ eng_pc' = "done"
           ELSE /\ result' = result
                /\ eng_pc' = summary.error
    /\ UNCHANGED <<script_vars, metrics_vars, evaluator_vars, threads_vars,
                   initial_capital, eng_transaction_cost, predictions,
                   loop_i, portfolio, position, trades, daily_returns>>

EngineNext ==
    \/ LoopStep
    \/ LoopExit
    \/ ReturnSummary

-----------------------------------------------------------------------------
(* MetricsCalculator and the two other drawdown functions, as functions of *)
(* numpy arrays.  An array is a sequence; the cells of actual and          *)
(* predicted are integers, the cells of returns are rationals.             *)

\* the longest array
MaxLen == 3

\* cells of actual and predicted
MetricCells == {0, 1, 2}

\* cells of a return series
ReturnCells == {<<-1, 1>>, <<-1, 2>>, <<0, 1>>, <<1, 1>>}

\* cells of a portfolio-value curve
CurveCells == {0, 1, 2}

ArraysOf(cells) == UNION {[1..n -> cells] : n \in 0..MaxLen}

\* what `==` gives for two arrays whose shapes cannot be broadcast: the
\* scalar False (older numpy, its warning silenced at line 20) or ValueError
ComparisonOutcomes == {"False", "ValueError"}

NoBundle == [error |-> "not called"]

RAbs(a) == <<Abs(a[1]), a[2]>>

\* the largest k in lo..hi with k * k <= v
RECURSIVE ISqrtIn(_, _, _)
ISqrtIn(v, lo, hi) ==
    IF lo = hi THEN lo
    ELSE LET mid == (lo + hi + 1) \div 2
         IN  IF mid * mid <= v THEN ISqrtIn(v, mid, hi) ELSE ISqrtIn(v, lo, mid - 1)

\* np.sqrt, rounded down to two fractional digits; exact on 0 and on the
\* squares of such numbers
RSqrt(a) ==
    IF IsNaN(a) \/ a[1] < 0 THEN NaN
    ELSE IF IsInf(a) THEN PosInf
    ELSE Frac(ISqrtIn(a[1] * a[2] * 100 * 100, 0, 46340), 100 * a[2])

\* numpy broadcasting of two one-dimensional shapes
Broadcastable(la, lb) == la = lb \/ la = 1 \/ lb = 1

BroadcastLen(la, lb) == IF la = lb THEN la ELSE IF la = 1 THEN lb ELSE la

\* cell k of an array seen through a broadcast
Cell(s, k) == IF Len(s) = 1 THEN s[1] ELSE s[k]

\* np.diff
Diff(s) == [k \in 1..(IF Len(s) = 0 THEN 0 ELSE Len(s) - 1) |-> s[k + 1] - s[k]]

\* lines 47-49: np.mean(direction_actual == direction_pred) * 100
DirectionAccuracy(actual, predicted, elementwise) ==
    LET da == Diff(actual)
        dp == Diff(predicted)
    IN  IF Broadcastable(Len(da), Len(dp))
        THEN RMul(RMean([k \in 1..BroadcastLen(Len(da), Len(dp)) |->
                            IF SignOf(Cell(da, k)) = SignOf(Cell(dp, k))
                            THEN <<1, 1>> ELSE <<0, 1>>]),
                  Int2R(100))
        ELSE IF elementwise = "False" THEN <<0, 1>> ELSE NaN

\* lines 35-58
calculate_prediction_metrics(actual, predicted, elementwise) ==
    IF ~Broadcastable(Len(actual), Len(predicted))
    THEN [error |-> "ValueError"]
    ELSE IF /\ ~Broadcastable(Len(Diff(actual)), Len(Diff(predicted)))
            /\ elementwise = "ValueError"
    THEN [error |-> "ValueError"]
    ELSE
    LET n == BroadcastLen(Len(actual), Len(predicted))
        residual == [k \in 1..n |-> Int2R(Cell(actual, k) - Cell(predicted, k))]
        mean_actual == RMean([k \in DOMAIN actual |-> Int2R(actual[k])])
        mse == RMean([k \in 1..n |-> RMul(residual[k], residual[k])])
        mae == RMean([k \in 1..n |-> RAbs(residual[k])])
        mape == RMul(RMean([k \in 1..n |->
                               RAbs(RDiv(residual[k], Int2R(Abs(Cell(actual, k)))))]),
                     Int2R(100))
        ss_total == RSum([k \in DOMAIN actual |->
                             LET dev == RSub(Int2R(actual[k]), mean_actual)
                             IN  RMul(dev, dev)])
        ss_residual == RSum([k \in 1..n |-> RMul(residual[k], residual[k])])
    IN  [error |-> "none",
         MSE |-> mse,
         RMSE |-> RSqrt(mse),
         MAE |-> mae,
         MAPE |-> mape,
         R2 |-> RSub(<<1, 1>>, RDiv(ss_residual, ss_total)),
         Direction_Accuracy |-> DirectionAccuracy(actual, predicted, elementwise)]

\* np.correlate(e, e, mode='full') / len(e), from lag 0 on: the cell at lag
Autocorrelation(e, lag) ==
    RDiv(RSum([k \in 1..(Len(e) - lag) |-> Int2R(e[k] * e[k + lag])]),
         Int2R(Len(e)))

\* lines 60-83.  The subtraction of line 63 and of line 68 raises ValueError
\* on shapes that cannot be broadcast; stats.pearsonr raises ValueError
\* unless its arguments have one length, at least 2.  Of the bundle the
\* autocorrelations are computed; the t statistic, the correlation and
\* their p-values are left out.
calculate_statistical_metrics(actual, predicted) ==
    LET la == Len(actual)
        lp == Len(predicted)
        naive == IF la = 0 THEN 0 ELSE la - 1
        model == IF BroadcastLen(la, lp) = 0 THEN 0 ELSE BroadcastLen(la, lp) - 1
    IN  IF ~Broadcastable(la, lp) THEN [error |-> "ValueError"]
        ELSE IF ~Broadcastable(naive, model) THEN [error |-> "ValueError"]
        ELSE IF la # lp \/ la < 2 THEN [error |-> "ValueError"]
        ELSE LET errors_model == [k \in 1..(la - 1) |-> actual[k + 1] - predicted[k + 1]]
             IN  [error |-> "none",
                  ACF_1 |-> IF Len(errors_model) > 1
                            THEN Autocorrelation(errors_model, 1) ELSE NaN,
                  ACF_5 |-> IF Len(errors_model) > 5
                            THEN Autocorrelation(errors_model, 5) ELSE NaN]

\* np.cumprod(1 + returns)
RECURSIVE CumProdOnePlus(_, _)
CumProdOnePlus(returns, k) ==
    IF k = 1 THEN RAdd(<<1, 1>>, returns[1])
    ELSE RMul(CumProdOnePlus(returns, k - 1), RAdd(<<1, 1>>, returns[k]))

CumulativeCurve(returns) == [k \in DOMAIN returns |-> CumProdOnePlus(returns, k)]

\* the drawdown taken from the highest value of the whole curve
financial_max_drawdown_from_peak(returns) ==
    LET cumulative_returns == CumulativeCurve(returns)
        peak == RMaxOf(cumulative_returns, Len(returns))
        drawdowns == [k \in DOMAIN returns |->
                         RDiv(RSub(peak, cumulative_returns[k]), peak)]
    IN  RMaxOf(drawdowns, Len(drawdowns))

\* lines 94-97, for a non-empty array
financial_max_drawdown(returns) ==
    LET cumulative_returns == CumulativeCurve(returns)
        drawdowns == [k \in DOMAIN returns |->
                         RDiv(RSub(RunningMax(cumulative_returns, k),
                                   cumulative_returns[k]),
                              RunningMax(cumulative_returns, k))]
    IN  RMaxOf(drawdowns, Len(drawdowns))

\* a bundle of NaN values for an empty array
calculate_financial_metrics_of_any(returns) ==
    [error |-> "none",
     Annual_Return |-> RMul(RMean(returns), Int2R(252)),
     Max_Drawdown |-> IF returns = <<>> THEN NaN ELSE financial_max_drawdown(returns)]

\* lines 85-112: np.max of line 97 raises ValueError on an empty array.  Of
\* the bundle Annual_Return and Max_Drawdown are computed; the ratios that
\* need a standard deviation are left out.
calculate_financial_metrics(returns) ==
    IF returns = <<>>
    THEN [error |-> "ValueError"]
    ELSE [error |-> "none",
          Annual_Return |-> RMul(RMean(returns), Int2R(252)),
          Max_Drawdown |-> financial_max_drawdown(returns)]

\* Python's min over a sequence: the first cell unless a later one is smaller
RECURSIVE PyMin(_, _)
PyMin(s, k) ==
    IF k = 1 THEN s[1]
    ELSE LET m == PyMin(s, k - 1) IN IF RLt(s[k], m) THEN s[k] ELSE m

\* fusion_model_backtest.py lines 76-80, on finite returns; min raises
\* ValueError on an empty series
script_calculate_max_drawdown(returns) ==
    IF returns = <<>>
    THEN [error |-> "ValueError"]
    ELSE LET cumulative == CumulativeCurve(returns)
             drawdowns == [k \in DOMAIN returns |->
                              RSub(RDiv(cumulative[k], RunningMax(cumulative, k)),
                                   <<1, 1>>)]
         IN  [error |-> "none",
              value |-> RMul(PyMin(drawdowns, Len(drawdowns)), Int2R(100))]

\* BacktestEngine._calculate_max_drawdown, lines 261-266: np.max raises
\* ValueError on an empty array
engine_calculate_max_drawdown(portfolio_values) ==
    IF portfolio_values = <<>>
    THEN [error |-> "ValueError"]
    ELSE [error |-> "none",
          value |-> calculate_max_drawdown([k \in DOMAIN portfolio_values |->
                                               Int2R(portfolio_values[k])])]

MetricsInit ==
    /\ met_fn = "none"
    /\ met_args = <<>>
    /\ met_out = NoBundle

PredictionMetricsCall ==
    /\ met_fn = "none"
    /\ \E actual \in ArraysOf(MetricCells), predicted \in ArraysOf(MetricCells),
          elementwise \in ComparisonOutcomes :
          /\ met_args' = [actual |-> actual, predicted |-> predicted,
                          elementwise |-> elementwise]
          /\ met_out' = calculate_prediction_metrics(actual, predicted, elementwise)
    /\ met_fn' = "calculate_prediction_metrics"
    /\ UNCHANGED <<script_vars, engine_vars, evaluator_vars, threads_vars>>

StatisticalMetricsCall ==
    /\ met_fn = "none"
    /\ \E actual \in ArraysOf(MetricCells), predicted \in ArraysOf(MetricCells) :
          /\ met_args' = [actual |-> actual, predicted |-> predicted]
          /\ met_out' = calculate_statistical_metrics(actual, predicted)
    /\ met_fn' = "calculate_statistical_metrics"
    /\ UNCHANGED <<script_vars, engine_vars, evaluator_vars, threads_vars>>

FinancialMetricsCall ==
    /\ met_fn = "none"
    /\ \E returns \in ArraysOf(ReturnCells) :
          /\ met_args' = [returns |-> returns]
          /\ met_out' = calculate_financial_metrics(returns)
    /\ met_fn' = "calculate_financial_metrics"
    /\ UNCHANGED <<script_vars, engine_vars, evaluator_vars, threads_vars>>

ScriptMaxDrawdownCall ==
    /\ met_fn = "none"
    /\ \E returns \in ArraysOf(ReturnCells) :
          /\ met_args' = [returns |-> returns]
          /\ met_out' = script_calculate_max_drawdown(returns)
    /\ met_fn' = "calculate_max_drawdown"
    /\ UNCHANGED <<script_vars, engine_vars, evaluator_vars, threads_vars>>

EngineMaxDrawdownCall ==
    /\ met_fn = "none"
    /\ \E portfolio_values \in ArraysOf(CurveCells) :
          /\ met_args' = [portfolio_values |-> portfolio_values]
          /\ met_out' = engine_calculate_max_drawdown(portfolio_values)
    /\ met_fn' = "_calculate_max_drawdown"
    /\ UNCHANGED <<script_vars, engine_vars, evaluator_vars, threads_vars>>

MetricsNext ==
    \/ PredictionMetricsCall
    \/ StatisticalMetricsCall
    \/ FinancialMetricsCall
    \/ ScriptMaxDrawdownCall
    \/ EngineMaxDrawdownCall

-----------------------------------------------------------------------------
(* ModelEvaluator.evaluate_model with market_types = None, on a save_dir   *)
(* that holds no file when the run starts.  The symbols are 1..n; what the *)
(* body of _get_predictions does for a symbol (the data file, the model    *)
(* and its inference) is the input ev_data[symbol]: the exception it       *)
(* raises, or the Actual and Predicted columns it collects.                *)

\* the longest list of symbols
MaxSymbols == 3

\* the columns collected for a symbol, at least two rows
EvalTables ==
    {[raises |-> "none", Actual |-> <<1, 2>>, Predicted |-> <<1, 2>>],
     [raises |-> "none", Actual |-> <<2, 1>>, Predicted |-> <<1, 2>>],
     [raises |-> "none", Actual |-> <<1, 2, 2>>, Predicted |-> <<2, 1, 2>>],
     [raises |-> "none", Actual |-> <<0, 1>>, Predicted |-> <<1, 1>>]}

\* the data file is missing, or the inference fails
EvalFailures == {[raises |-> "FileNotFoundError"], [raises |-> "RuntimeError"]}

EvalOutcomes == EvalTables \cup EvalFailures

\* line 372: Series.pct_change(), NaN in the first row
pct_change(column) ==
    [k \in DOMAIN column |->
        IF k = 1 THEN NaN
        ELSE RSub(RDiv(Int2R(column[k]), Int2R(column[k - 1])), <<1, 1>>)]

\* _get_predictions without its try/except
get_predictions_uncaught(outcome) ==
    IF outcome.raises # "none"
    THEN [status |-> "raised", error |-> outcome.raises]
    ELSE [status |-> "table", Actual |-> outcome.Actual,
          Predicted |-> outcome.Predicted, Returns |-> pct_change(outcome.Actual)]

\* lines 305-378: None when anything in the body raises
get_predictions(outcome) ==
    IF outcome.raises # "none"
    THEN [status |-> "None"]
    ELSE [status |-> "table", Actual |-> outcome.Actual,
          Predicted |-> outcome.Predicted, Returns |-> pct_change(outcome.Actual)]

\* lines 380-399: the three bundles merged, or the exception of the first
\* calculator that raises; calculate_risk_metrics is left out
calculate_all_metrics(results) ==
    LET prediction == calculate_prediction_metrics(results.Actual, results.Predicted,
                                                   "ValueError")
        statistical == calculate_statistical_metrics(results.Actual, results.Predicted)
        financial == calculate_financial_metrics(results.Returns)
    IN  IF prediction.error # "none" THEN [error |-> prediction.error]
        ELSE IF statistical.error # "none" THEN [error |-> statistical.error]
        ELSE IF financial.error # "none" THEN [error |-> financial.error]
        ELSE prediction @@ statistical @@ financial

\* lines 401-420: the files _generate_stock_report writes for a symbol
StockReportFiles(symbol) ==
    {<<symbol, name>> : name \in {"metrics.csv", "predictions.png",
                                  "returns_distribution.png",
                                  "cumulative_returns.png", "rolling_metrics.png"}}

EvaluatorInit ==
    /\ ev_pc = "loop"
    /\ \E n \in 0..MaxSymbols : ev_data \in [1..n -> EvalOutcomes]
    /\ ev_k = 1
    /\ ev_results = <<>>
    /\ ev_files = {}
    /\ ev_returns = <<>>

\* one iteration of the loop, lines 282-295
EvaluateSymbol ==
    /\ ev_pc = "loop"
    /\ ev_k <= Len(ev_data)
    /\ LET pred_results == get_predictions(ev_data[ev_k])
       IN  IF pred_results.status = "raised"
           THEN /\ ev_pc' = pred_results.error
                /\ UNCHANGED <<ev_k, ev_results, ev_files, ev_returns>>
           ELSE IF pred_results.status = "None"
           THEN /\ ev_k' = ev_k + 1
                /\ UNCHANGED <<ev_pc, ev_results, ev_files, ev_returns>>
           ELSE LET metrics == calculate_all_metrics(pred_results)
                IN  /\ ev_returns' = pred_results.Returns
                    /\ IF metrics.error # "none"
                       THEN /\ ev_pc' = metrics.error
                            /\ UNCHANGED <<ev_k, ev_results, ev_files>>
                       ELSE /\ ev_files' = ev_files \cup StockReportFiles(ev_k)
                            /\ ev_results' =
                                  Append(ev_results,
                                         [Symbol |-> ev_k, Market |-> "Unknown",
                                          metrics |-> metrics])
                            /\ ev_k' = ev_k + 1
                            /\ UNCHANGED ev_pc
    /\ UNCHANGED <<script_vars, engine_vars, metrics_vars, threads_vars, ev_data>>

\* the list of symbols is exhausted
EvaluateLoopExit ==
    /\ ev_pc = "loop"
    /\ ev_k > Len(ev_data)
    /\ ev_pc' = "summary"
    /\ UNCHANGED <<script_vars, engine_vars, metrics_vars, threads_vars,
                   ev_data, ev_k, ev_results, ev_files, ev_returns>>

\* line 298, _generate_summary_report, lines 422-443: an empty frame when
\* nothing was evaluated; else pd.read_csv of the first row's
\* predictions.csv, which raises FileNotFoundError when the file is not
\* there.  With the file there the stage goes on to line 441.
GenerateSummaryReport ==
    /\ ev_pc = "summary"
    /\ ev_pc' = IF ev_results = <<>> THEN "latex"
                ELSE IF <<ev_results[1].Symbol, "predictions.csv">> \notin ev_files
                THEN "FileNotFoundError"
                ELSE "backtest"
    /\ UNCHANGED <<script_vars, engine_vars, metrics_vars, threads_vars,
                   ev_data, ev_k, ev_results, ev_files, ev_returns>>

\* line 301 on the empty frame: groupby('Market') raises KeyError
GenerateLatexTables ==
    /\ ev_pc = "latex"
    /\ ev_pc' = "KeyError"
    /\ UNCHANGED <<script_vars, engine_vars, metrics_vars, threads_vars,
                   ev_data, ev_k, ev_results, ev_files, ev_returns>>

EvaluatorNext ==
    \/ EvaluateSymbol
    \/ EvaluateLoopExit
    \/ GenerateSummaryReport
    \/ GenerateLatexTables

-----------------------------------------------------------------------------
(* Two calls of BacktestEngine.backtest on one engine, run by two threads  *)
(* whose loop iterations interleave.  thr_run[r] holds the local variables *)
(* of call r, thr_input[r] its arguments.                                  *)

Runs == {1, 2}

ThreadRows ==
    {[Predicted |-> 0, Actual |-> 1], [Predicted |-> 1, Actual |-> 2],
     [Predicted |-> 2, Actual |-> 1]}

ThreadCostRates == {<<1, 100>>}

ThreadTables == UNION {[1..n -> ThreadRows] : n \in 0..MaxRows}

\* line 219 onwards: the locals of a call that has not entered its loop
StartOfRun(capital) ==
    [pc |-> "loop", i |-> 1, portfolio |-> Int2R(capital), position |-> 0,
     trades |-> <<>>, daily_returns |-> <<>>, result |-> NoResult]

\* a portfolio kept on the engine and shared by the calls
EnginePortfolio(run, r) == run[1].portfolio

\* line 219: portfolio is a local variable of the call
LocalPortfolio(run, r) == run[r].portfolio

ThreadsInit ==
    /\ thr_capital \in EngineCapitals
    /\ thr_input \in [Runs -> [predictions : ThreadTables,
                               transaction_cost : ThreadCostRates]]
    /\ thr_run = [r \in Runs |-> StartOfRun(thr_capital)]

\* one iteration of the loop of call r, lines 224-246
ThreadLoopStep(r) ==
    /\ thr_run[r].pc = "loop"
    /\ thr_run[r].i < Len(thr_input[r].predictions)
    /\ LET table == thr_input[r].predictions
           i == thr_run[r].i
           signal == Signal(table[i + 1].Predicted, table[i].Predicted)
           price_change == table[i + 1].Actual - table[i].Actual
           paid == AfterCost(LocalPortfolio(thr_run, r), thr_run[r].position, signal,
                             thr_input[r].transaction_cost)
           returns == StepReturns(signal, price_change, table[i].Actual)
           pf == AfterReturns(paid, signal, returns)
       IN  thr_run' = [thr_run EXCEPT
                          ![r].position = signal,
                          ![r].portfolio = pf,
                          ![r].daily_returns = Append(@, returns),
                          ![r].trades = AppendTrade(@, i, signal, pf, returns),
                          ![r].i = i + 1]
    /\ UNCHANGED <<script_vars, engine_vars, metrics_vars, evaluator_vars,
                   thr_capital, thr_input>>

\* range(1, len(predictions)) of call r is exhausted
ThreadLoopExit(r) ==
    /\ thr_run[r].pc = "loop"
    /\ thr_run[r].i >= Len(thr_input[r].predictions)
    /\ thr_run' = [thr_run EXCEPT ![r].pc = "return"]
    /\ UNCHANGED <<script_vars, engine_vars, metrics_vars, evaluator_vars,
                   thr_capital, thr_input>>

\* lines 248-259 of call r
ThreadReturnSummary(r) ==
    /\ thr_run[r].pc = "return"
    /\ LET summary == BacktestSummary(LocalPortfolio(thr_run, r), thr_capital,
                                      thr_run[r].trades, thr_run[r].daily_returns)
       IN  thr_run' = IF summary.error = "none"
                      THEN [thr_run EXCEPT ![r].result = summary, ![r].pc = "done"]
                      ELSE [thr_run EXCEPT ![r].pc = summary.error]
    /\ UNCHANGED <<script_vars, engine_vars, metrics_vars, evaluator_vars,
                   thr_capital, thr_input>>

ThreadsNext ==
    \E r \in Runs :
        \/ ThreadLoopStep(r)
        \/ ThreadLoopExit(r)
        \/ ThreadReturnSummary(r)

-----------------------------------------------------------------------------
(* Specifications: each program runs alone, the other ones idle *)

ScriptIdle ==
    /\ pc = "idle"
    /\ transaction_cost = 0
    /\ max_position = 0
    /\ df_Predicted = <<>>
    /\ df_Actual = <<>>
    /\ df_position = <<>>
    /\ df_position_change = <<>>
    /\ df_transaction_cost = <<>>
    /\ df_daily_return = <<>>
    /\ df_cumulative_return = <<>>
    /\ trade_counts = 0
    /\ total_cost = 0

EngineIdle ==
    /\ eng_pc = "idle"
    /\ initial_capital = 0
    /\ eng_transaction_cost = <<0, 1>>
    /\ predictions = <<>>
    /\ loop_i = 0
    /\ portfolio = <<0, 1>>
    /\ position = 0
    /\ trades = <<>>
    /\ daily_returns = <<>>
    /\ result = NoResult

MetricsIdle ==
    /\ met_fn = "idle"
    /\ met_args = <<>>
    /\ met_out = NoBundle

EvaluatorIdle ==
    /\ ev_pc = "idle"
    /\ ev_data = <<>>
    /\ ev_k = 0
    /\ ev_results = <<>>
    /\ ev_files = {}
    /\ ev_returns = <<>>

ThreadsIdle ==
    /\ thr_capital = 0
    /\ thr_input = <<>>
    /\ thr_run = <<>>

ScriptAlone == ScriptInit /\ EngineIdle /\ MetricsIdle /\ EvaluatorIdle /\ ThreadsIdle

EngineAlone == EngineInit /\ ScriptIdle /\ MetricsIdle /\ EvaluatorIdle /\ ThreadsIdle

MetricsAlone == MetricsInit /\ ScriptIdle /\ EngineIdle /\ EvaluatorIdle /\ ThreadsIdle

EvaluatorAlone == EvaluatorInit /\ ScriptIdle /\ EngineIdle /\ MetricsIdle /\ ThreadsIdle

ThreadsAlone == ThreadsInit /\ ScriptIdle /\ EngineIdle /\ MetricsIdle /\ EvaluatorIdle

ScriptSpec == ScriptAlone /\ [][ScriptNext]_vars

EngineSpec == EngineAlone /\ [][EngineNext]_vars

MetricsSpec == MetricsAlone /\ [][MetricsNext]_vars

EvaluatorSpec == EvaluatorAlone /\ [][EvaluatorNext]_vars

ThreadsSpec == ThreadsAlone /\ [][ThreadsNext]_vars

-----------------------------------------------------------------------------
(* Claims about the continuous-position backtest *)

Rows == DOMAIN df_Predicted

ScriptFinished == pc = "done"

CostComputed == pc \in {"daily_return", "cumulative_return", "statistics", "done"}

CumulativeComputed == pc \in {"statistics", "done"}

\* the return Actual / 100 of a row
ReturnOfRow(i) == RoundDiv(df_Actual[i], 100)

\* C1: calculate_position_size(r, m) lies in [-m, m] for every predicted
\* return r and every max position m, and so does the position of every row
\* of the table after any sequence of predictions.
C1_PositionWithinBounds ==
    /\ \A r \in PredictedValues : \A m \in MaxPositions :
          /\ -m <= calculate_position_size(r, m)
          /\ calculate_position_size(r, m) <= m
    /\ \A i \in DOMAIN df_position :
          /\ -max_position <= df_position[i]
          /\ df_position[i] <= max_position

\* C1 witness: a finished run whose positions touch both ends of the interval
C1_Witness ==
    /\ ScriptFinished
    /\ \E i \in Rows : df_position[i] = max_position
    /\ \E i \in Rows : df_position[i] = -max_position
    /\ \E i \in Rows : df_position[i] \notin {0, max_position, -max_position}

\* the case of C2: no cost, full position cap, predictions equal to the returns
C2_Case ==
    /\ ScriptFinished
    /\ transaction_cost = 0
    /\ max_position = SCALE
    /\ \A i \in Rows : df_Predicted[i] = ReturnOfRow(i)

RECURSIVE C2_Compound(_, _)
C2_Compound(f, i) ==
    IF i = 0 THEN SCALE ELSE FMul(C2_Compound(f, i - 1), SCALE + f[i])

\* C2 as stated: with c = 0, m = 1 and predictions equal to the returns r,
\* the final cumulative return is prod(1 + r_i) - 1.
C2_Original ==
    C2_Case =>
        df_cumulative_return[Len(df_cumulative_return)] =
            (C2_Compound([i \in Rows |-> ReturnOfRow(i)], Len(df_Actual)) - SCALE) * 100

\* C2 amended: with c = 0, m = 1 and predictions equal to the returns r, the
\* final cumulative return is prod(1 + p_i * r_i) - 1, p_i being the sized
\* position calculate_position_size(r_i, 1): nothing is lost to costs, and
\* the position is the sigmoid-sized one, not 1.
C2_NoCostDrag ==
    C2_Case =>
        df_cumulative_return[Len(df_cumulative_return)] =
            (C2_Compound([i \in Rows |->
                             FMul(calculate_position_size(ReturnOfRow(i), SCALE),
                                  ReturnOfRow(i))],
                         Len(df_Actual)) - SCALE) * 100

\* C2 witness: the case with a position change on every row and a gain
C2_Witness ==
    /\ C2_Case
    /\ Len(df_Actual) = MaxRows
    /\ \A i \in Rows : df_position_change[i] # 0
    /\ df_cumulative_return[Len(df_cumulative_return)] > 0

\* the position is 0 before row k and 0.5 from row k on
C3_EntersAt(k) ==
    \A i \in Rows : df_position[i] = IF i < k THEN 0 ELSE SCALE \div 2

\* C3: with c = 0.001, when the position goes from 0 to 0.5 once and is then
\* held, the costs of the run add up to 0.5 * 0.001 of the capital (0.05 in
\* the percent of total_cost) and every row after the entry is charged 0.
C3_SingleEntryCost ==
    \A k \in Rows :
        (ScriptFinished /\ transaction_cost = Milli(1) /\ C3_EntersAt(k)) =>
            /\ SumSeq(df_transaction_cost) = Milli(1) \div 2
            /\ total_cost = 100 * (Milli(1) \div 2)
            /\ \A i \in Rows : i > k => df_transaction_cost[i] = 0

\* C3 witness: flat on the first row, entered on the second, held on the third
C3_Witness ==
    /\ ScriptFinished
    /\ transaction_cost = Milli(1)
    /\ Len(df_position) >= 3
    /\ C3_EntersAt(2)

\* C4: the cost of row i is |p_i - p_(i-1)| * c with the position before the
\* first row taken as 0, so rows with the same size of change pay the same.
C4_CostProportionalToChange ==
    CostComputed =>
        /\ \A i \in Rows :
              df_transaction_cost[i] =
                  FMul(Abs(df_position[i] - (IF i = 1 THEN 0 ELSE df_position[i - 1])),
                       transaction_cost)
        /\ \A i, j \in Rows :
              Abs(df_position_change[i]) = Abs(df_position_change[j])
                  => df_transaction_cost[i] = df_transaction_cost[j]

\* C4 witness: the first row pays for entering, a later row pays less for a
\* smaller change
C4_Witness ==
    /\ ScriptFinished
    /\ df_transaction_cost[1] > 0
    /\ \E i \in Rows : i > 1 /\ df_transaction_cost[i] > 0
                             /\ df_transaction_cost[i] < df_transaction_cost[1]

\* C5 as stated: the cumulative return of the first row is 0.
C5_Original ==
    CumulativeComputed => df_cumulative_return[1] = 0

\* C5 amended: the cumulative return of the first row is that row's own net
\* return, position * Actual / 100 - |position| * c, in percent; it is 0 when
\* the first position is 0.
C5_FirstRowIsOwnReturn ==
    CumulativeComputed =>
        /\ df_cumulative_return[1] =
              100 * (RoundDiv(FMul(df_position[1], df_Actual[1]), 100)
                        - FMul(Abs(df_position[1]), transaction_cost))
        /\ df_position[1] = 0 => df_cumulative_return[1] = 0

\* C5 witness: a first row that holds a position and ends below 0
C5_Witness ==
    /\ ScriptFinished
    /\ df_position[1] = max_position
    /\ df_cumulative_return[1] < 0

-----------------------------------------------------------------------------
(* Claims about BacktestEngine.backtest *)

Zero == <<0, 1>>

\* a step of the loop is being taken
EngineStep == eng_pc = "loop" /\ loop_i' = loop_i + 1

EngineReturned == eng_pc \in {"return", "done", "KeyError"}

\* C6: with initial capital > 0 and c in [0, 1) the portfolio value is
\* non-negative after every step, for every sequence of predicted and actual
\* values.  Stated for the finite values: a value that is not finite comes
\* from a division by zero.
C6_PortfolioNonNegative ==
    IsFinite(portfolio) => ~RLt(portfolio, Zero)

\* C7: on every step the signal is 1 if the prediction rose and 0 otherwise;
\* the position starts at 0, is 0 or 1 and equals the signal after the step;
\* the cost portfolio * c is deducted on exactly the steps whose signal
\* differs from the position held.
C7_Step ==
    EngineStep =>
        LET signal == IF Row(loop_i).Predicted > Row(loop_i - 1).Predicted THEN 1 ELSE 0
            charged == IF signal # position
                       THEN RMul(portfolio, eng_transaction_cost) ELSE Zero
            paid == RSub(portfolio, charged)
            returns == daily_returns'[Len(daily_returns')]
        IN  /\ position \in {0, 1}
            /\ loop_i = 1 => position = 0
            /\ position' = signal
            /\ trades'[Len(trades')].signal = signal
            /\ portfolio' = RAdd(paid, RMul(paid, returns))

C7_SignalPositionCost == [][C7_Step]_vars

\* C7 witness: a position entered on the first step and held on the second,
\* at constant prices, so that one cost of 1/100 was paid
C7_Witness ==
    /\ Len(trades) = 2
    /\ trades[1].signal = 1
    /\ trades[2].signal = 1
    /\ eng_transaction_cost = <<1, 100>>
    /\ portfolio = Frac(99 * initial_capital, 100)

\* C8: the asset return is applied only when the position is 1 after the
\* signal is processed; on a step that starts and stays flat the portfolio
\* value is unchanged and the recorded return is 0, whatever the price change.
C8_Step ==
    (EngineStep /\ position' = 0) =>
        /\ daily_returns'[Len(daily_returns')] = Zero
        /\ trades'[Len(trades')].returns = Zero
        /\ trades'[Len(trades')].portfolio = portfolio'
        /\ position = 0 => portfolio' = portfolio
        /\ position = 1 =>
              portfolio' = RSub(portfolio, RMul(portfolio, eng_transaction_cost))

C8_FlatEarnsNothing == [][C8_Step]_vars

\* C8 witness: a flat first step across a price change
C8_Witness ==
    /\ Len(trades) >= 1
    /\ trades[1].signal = 0
    /\ Row(0).Actual = 1
    /\ Row(1).Actual = 2
    /\ trades[1].portfolio = Int2R(initial_capital)

\* C9 as stated: for an input of n rows the trade log has n entries.
C9_Original ==
    EngineReturned => Len(trades) = Len(predictions)

\* C9 amended: the log is append-only, in chronological order, and has one
\* entry per step of the loop, which starts at the second row: n - 1 entries
\* for an input of n >= 1 rows, none for an empty input.
C9_Step ==
    /\ Len(trades') >= Len(trades)
    /\ SubSeq(trades', 1, Len(trades)) = trades
    /\ \A k \in DOMAIN trades' : trades'[k].date = k
    /\ eng_pc' \in {"return", "done", "KeyError"} =>
          Len(trades') = IF Len(predictions) = 0 THEN 0 ELSE Len(predictions) - 1

C9_OneEntryPerStep == [][C9_Step]_vars

\* C9 witness: the longest input, returned with one entry per step
C9_Witness ==
    /\ eng_pc = "done"
    /\ Len(predictions) = MaxRows
    /\ Len(trades) = MaxRows - 1
    /\ \E k \in DOMAIN trades : trades[k].signal = 0

\* C10: on a zero-length input the run ends in an error raised to the caller
\* and returns no summary statistics.
C10_EmptyInputIsError ==
    Len(predictions) = 0 =>
        /\ result = NoResult
        /\ eng_pc \in {"loop", "return", "KeyError"}
        /\ eng_pc = "KeyError" \/ ENABLED EngineNext

\* C10 witness: the empty input after the KeyError
C10_Witness ==
    /\ Len(predictions) = 0
    /\ eng_pc = "KeyError"

\* C11: a step whose previous actual value is 0 while a position is held is
\* reported as a division-by-zero error: no run carries an infinite or NaN
\* return or portfolio value in its log, and none returns one.
C11_NoSilentNonFinite ==
    /\ \A k \in DOMAIN trades :
          IsFinite(trades[k].returns) /\ IsFinite(trades[k].portfolio)
    /\ eng_pc = "done" => IsFinite(result.Final_Portfolio)

\* the position changed at step k
C18_Flip(k) ==
    IF trades[k].signal # (IF k = 1 THEN 0 ELSE trades[k - 1].signal) THEN 1 ELSE 0

\* initial_capital * prod over the steps up to k of (1 - c * flip) * (1 + returns)
RECURSIVE C18_Product(_)
C18_Product(k) ==
    IF k = 0 THEN Int2R(initial_capital)
    ELSE RMul(RMul(C18_Product(k - 1),
                   RSub(<<1, 1>>, RMul(eng_transaction_cost, Int2R(C18_Flip(k))))),
              RAdd(<<1, 1>>, trades[k].returns))

\* C18: the return recorded for a step is the raw price return of a held
\* position (0 when flat), never reduced by the cost, while the portfolio is
\* initial_capital * prod (1 - c * flip_k) * (1 + returns_k) after every
\* step; the summary takes Annual_Return and Win_Rate from the recorded
\* returns and Total_Return from the final portfolio.  Stated for the runs
\* whose values are numbers.
C18_CostOnlyInPortfolio ==
    IsFinite(portfolio) =>
        /\ portfolio = C18_Product(Len(trades))
        /\ \A k \in DOMAIN trades :
              /\ trades[k].portfolio = C18_Product(k)
              /\ daily_returns[k] = trades[k].returns
              /\ trades[k].returns =
                    IF trades[k].signal = 1
                    THEN RDiv(Int2R(Row(k).Actual - Row(k - 1).Actual),
                              Int2R(Row(k - 1).Actual))
                    ELSE Zero
        /\ eng_pc = "done" =>
              /\ result.Final_Portfolio = portfolio
              /\ result.Total_Return =
                    RDiv(RSub(result.Final_Portfolio, Int2R(initial_capital)),
                         Int2R(initial_capital))
              /\ result.Annual_Return =
                    RMul(RMean([k \in DOMAIN trades |-> trades[k].returns]), Int2R(252))

\* C18 witness: a returned run that paid a cost on entering and then earned
\* a return while holding
C18_Witness ==
    /\ eng_pc = "done"
    /\ eng_transaction_cost = <<1, 100>>
    /\ Len(trades) >= 2
    /\ trades[1].signal = 1
    /\ trades[1].returns = Zero
    /\ trades[2].signal = 1
    /\ trades[2].returns = <<1, 1>>
    /\ portfolio = Frac(2 * 99 * initial_capital, 100)

-----------------------------------------------------------------------------
(* Claims about the metric functions *)

MetricsCalled(fn) == met_fn = fn

\* C12: calculate_prediction_metrics and calculate_statistical_metrics raise
\* an error for every pair of arrays of unequal lengths, a length of 1
\* included; no bundle is returned.
C12_UnequalLengthsRejected ==
    /\ met_fn \in {"calculate_prediction_metrics", "calculate_statistical_metrics"}
    /\ Len(met_args.actual) # Len(met_args.predicted)
    => met_out.error # "none"

\* C13: calculate_financial_metrics raises an error on an empty return
\* series; it returns no bundle of NaN values.
C13_EmptyReturnsIsError ==
    MetricsCalled("calculate_financial_metrics") /\ met_args.returns = <<>>
    => met_out.error = "ValueError"

\* C13 witness: the call on the empty series has raised
C13_Witness ==
    /\ MetricsCalled("calculate_financial_metrics")
    /\ met_args.returns = <<>>
    /\ met_out.error = "ValueError"

\* a curve of strictly positive values that never decreases
C15_Rising(curve) ==
    /\ curve # <<>>
    /\ \A k \in DOMAIN curve : RLt(Zero, curve[k])
    /\ \A k \in 2..Len(curve) : ~RLt(curve[k], curve[k - 1])

\* C15: on a strictly positive curve that never decreases the max drawdown
\* is exactly 0: in BacktestEngine._calculate_max_drawdown on the curve, and
\* in calculate_financial_metrics and the script's calculate_max_drawdown on
\* a return series whose cumulative product is such a curve.
C15_NoDrawdownWhenRising ==
    /\ /\ MetricsCalled("_calculate_max_drawdown")
       /\ C15_Rising([k \in DOMAIN met_args.portfolio_values |->
                         Int2R(met_args.portfolio_values[k])])
       => met_out.error = "none" /\ met_out.value = Zero
    /\ /\ MetricsCalled("calculate_financial_metrics")
       /\ C15_Rising(CumulativeCurve(met_args.returns))
       => met_out.error = "none" /\ met_out.Max_Drawdown = Zero
    /\ /\ MetricsCalled("calculate_max_drawdown")
       /\ C15_Rising(CumulativeCurve(met_args.returns))
       => met_out.error = "none" /\ met_out.value = Zero

\* C15 witness: the financial metrics of a series whose cumulative product
\* rises at every step
C15_Witness ==
    /\ MetricsCalled("calculate_financial_metrics")
    /\ Len(met_args.returns) >= 2
    /\ \A k \in DOMAIN met_args.returns : met_args.returns[k] = <<1, 1>>
    /\ met_out.Max_Drawdown = Zero

\* C16: for every actual array of at least 2 points,
\* calculate_prediction_metrics(actual, actual) returns R2 = 1, MAPE = 0,
\* MAE = 0, RMSE = 0 and Direction_Accuracy = 100.
C16_PerfectPrediction ==
    /\ MetricsCalled("calculate_prediction_metrics")
    /\ met_args.predicted = met_args.actual
    /\ Len(met_args.actual) >= 2
    => /\ met_out.error = "none"
       /\ met_out.R2 = <<1, 1>>
       /\ met_out.MAPE = Zero
       /\ met_out.MAE = Zero
       /\ met_out.RMSE = Zero
       /\ met_out.Direction_Accuracy = <<100, 1>>

-----------------------------------------------------------------------------
(* Claims about ModelEvaluator.evaluate_model *)

\* the symbols before position k for which a prediction is available
C14_Available(k) ==
    SelectSeq([j \in 1..(k - 1) |-> j], LAMBDA j : ev_data[j].raises = "none")

C19_SummaryFilesWritten ==
    /\ ev_pc = "summary" =>
          \A j \in DOMAIN ev_results :
              <<ev_results[j].Symbol, "predictions.csv">> \in ev_files
    /\ ev_pc # "FileNotFoundError"

\* C20: for a table of at least 2 rows whose Actual values are all nonzero,
\* the return series _calculate_all_metrics passes to the financial and
\* risk metrics holds no NaN.
C20_ReturnsHaveNoNaN ==
    /\ ev_k > 1
    /\ ev_data[ev_k - 1].raises = "none"
    /\ Len(ev_data[ev_k - 1].Actual) >= 2
    /\ \A j \in DOMAIN ev_data[ev_k - 1].Actual : ev_data[ev_k - 1].Actual[j] # 0
    => \A j \in DOMAIN ev_returns : ~IsNaN(ev_returns[j])

-----------------------------------------------------------------------------
(* Claims about concurrent backtests *)

\* the local variables of a call that runs alone, when it is about to start
\* iteration i of its loop
RECURSIVE C17_AloneAt(_, _, _)
C17_AloneAt(input, capital, i) ==
    IF i = 1 THEN StartOfRun(capital)
    ELSE LET before == C17_AloneAt(input, capital, i - 1)
             table == input.predictions
             j == i - 1
             signal == Signal(table[j + 1].Predicted, table[j].Predicted)
             paid == AfterCost(before.portfolio, before.position, signal,
                               input.transaction_cost)
             returns == StepReturns(signal, table[j + 1].Actual - table[j].Actual,
                                    table[j].Actual)
             pf == AfterReturns(paid, signal, returns)
         IN  [before EXCEPT !.i = i, !.position = signal, !.portfolio = pf,
                            !.daily_returns = Append(@, returns),
                            !.trades = AppendTrade(@, j, signal, pf, returns)]

\* a call with these locals is where a call that runs alone on the same
\* arguments would be
C17_SameAsAlone(locals, input, capital) ==
    LET alone == C17_AloneAt(input, capital, locals.i)
        summary == BacktestSummary(alone.portfolio, capital, alone.trades,
                                   alone.daily_returns)
    IN  /\ locals.portfolio = alone.portfolio
        /\ locals.position = alone.position
        /\ locals.trades = alone.trades
        /\ locals.daily_returns = alone.daily_returns
        /\ locals.pc = "done" => locals.result = summary
        /\ locals.pc \notin {"loop", "return", "done"} => locals.pc = summary.error

C17_Step ==
    /\ thr_capital' = thr_capital
    /\ thr_input' = thr_input
    /\ \A r \in DOMAIN thr_run :
          C17_SameAsAlone(thr_run'[r], thr_input[r], thr_capital)

\* C17: two backtests that interleave on one engine each produce what they
\* produce alone; no step writes the engine's initial_capital or an input.
C17_RunsAreIndependent == [][C17_Step]_vars

\* C17 witness: the second call has returned while the first one, on another
\* table, is in the middle of its loop, both holding different portfolios
C17_Witness ==
    /\ thr_run # <<>>
    /\ thr_run[1].pc = "loop"
    /\ thr_run[1].i = 2
    /\ Len(thr_input[1].predictions) = 3
    /\ thr_run[2].pc = "done"
    /\ thr_run[2].portfolio # thr_run[1].portfolio
    /\ thr_run[1].portfolio # Int2R(thr_capital)

====
